---- MODULE Spec2Model ----
(***************************************************************************)
(* Model of the async job system: the producer route POST /jobs            *)
(* (routes/jobs.js), the worker loop startWorker (src/worker.js), the      *)
(* jobs table and the two Redis lists job_queue and job_dlq.               *)
(*                                                                         *)
(* Every await in the source is one atomic step of the model; the code     *)
(* between two awaits is synchronous in Node and belongs to the step that  *)
(* ends at the next await.                                                 *)
(***************************************************************************)
EXTENDS Integers, Sequences, FiniteSets, TLC

\* ---------------------------------------------------------------- bounds
MaxJobs == 2
NumWorkers == 2
MaxRedeliver == 1
MaxRejected == 1
MaxFaults == 1

\* ------------------------------------------------------ program constants
MAX_RETRIES == 2

Workers == 1..NumWorkers
JobIds == 1..MaxJobs

\* req.body values a client may send, as <<type, payload>>; "" stands for a
\* missing type. The worker distinguishes three payload shapes:
\*   "fail" : payload.fail === true
\*   "good" : what the handler of the type needs (non-empty data / a recipient)
\*   "bad"  : anything else (empty data array, no recipient)
\* One request per path through the try block of the worker.
BodyInputs == {<<"", "good">>,
               <<"CSV_EXPORT", "good">>,
               <<"csv-generation", "bad">>,
               <<"EMAIL_SEND", "good">>,
               <<"OTHER", "fail">>,
               <<"OTHER", "good">>}

NULL == "null"

VARIABLES
    jobs,          \* the jobs table: id -> row
    job_queue,     \* Redis list job_queue, head (left end) first
    job_dlq,       \* Redis list job_dlq, head (left end) first
    inserted,      \* POST /jobs requests between their INSERT and their lpush
    shuttingDown,  \* per worker process: the shuttingDown flag
    pc,            \* per worker: position in startWorker
    jobId,         \* per worker: const jobId (0 when none)
    job,           \* per worker: const job, the row read by the SELECT
    redelivered,   \* number of duplicate deliveries made by the broker
    rejected,      \* number of 400 responses sent by POST /jobs
    faults,        \* number of store / broker operations that threw
    hist,          \* history: per job, the sequence of statuses written
    runs,          \* history: per job, number of handler executions
    claimer        \* history: per job, the worker whose UPDATE set the current processing

store == <<jobs, hist>>
lists == <<job_queue, job_dlq>>
locals == <<pc, jobId, job>>
vars == <<jobs, job_queue, job_dlq, inserted, shuttingDown, pc, jobId, job,
          redelivered, rejected, faults, hist, runs, claimer>>

NoJob == [type |-> "", status |-> "none", payload |-> "none",
          result |-> NULL, attempts |-> 0]

\* lpush that leaves two entries for one call
lpushTwice(list, id) == <<id, id>> \o list

\* redis.lpush(list, id): push at the head
lpush(list, id) == <<id>> \o list

\* a pop that returns the head while the tail is removed
brpopValueHead(list) == list[1]

\* the element redis.brpop takes: the tail
brpopValue(list) == list[Len(list)]

\* a pop that leaves its entry in the list
brpopRestKeep(list) == list

\* the list after redis.brpop
brpopRest(list) == SubSeq(list, 1, Len(list) - 1)

\* number of occurrences of id in a list
Count(list, id) == Cardinality({i \in 1..Len(list) : list[i] = id})

Init ==
    /\ jobs = <<>>
    /\ job_queue = <<>>
    /\ job_dlq = <<>>
    /\ inserted = {}
    /\ shuttingDown = [w \in Workers |-> FALSE]
    /\ pc = [w \in Workers |-> "top"]
    /\ jobId = [w \in Workers |-> 0]
    /\ job = [w \in Workers |-> NoJob]
    /\ redelivered = 0
    /\ rejected = 0
    /\ faults = 0
    /\ hist = <<>>
    /\ runs = <<>>
    /\ claimer = <<>>

\* ------------------------------------------------------------- producer

\* a request body that passes every check
ValidBodyAny(type) == TRUE

\* if (!type) return res.status(400)
ValidBody(type) == type # ""

\* router.post("/") up to the INSERT: validation, uuidv4(), INSERT
PostInsert(type, payload) ==
    IF ~ValidBody(type)
    THEN /\ rejected < MaxRejected
         /\ rejected' = rejected + 1
         /\ UNCHANGED <<store, lists, inserted, shuttingDown, locals, redelivered,
                        faults, runs, claimer>>
    ELSE /\ Len(jobs) < MaxJobs
         /\ LET id == Len(jobs) + 1 IN
            /\ jobs' = Append(jobs, [type |-> type, status |-> "pending",
                                     payload |-> payload, result |-> NULL,
                                     attempts |-> 0])
            /\ hist' = Append(hist, <<"pending">>)
            /\ runs' = Append(runs, 0)
            /\ claimer' = Append(claimer, 0)
            /\ inserted' = inserted \cup {id}
            /\ UNCHANGED <<lists, shuttingDown, locals, redelivered, rejected, faults>>

\* router.post("/"): redis.lpush("job_queue", jobId) and the 201 response
PostPush(id) ==
    /\ id \in inserted
    /\ inserted' = inserted \ {id}
    /\ job_queue' = lpush(job_queue, id)
    /\ UNCHANGED <<store, job_dlq, shuttingDown, locals, redelivered, rejected, faults, runs, claimer>>

\* --------------------------------------------------------------- worker

\* a row with one column changed, and the status history kept alongside
SetStatus(id, status) ==
    /\ jobs' = [jobs EXCEPT ![id].status = status]
    /\ hist' = [hist EXCEPT ![id] = Append(@, status)]

\* while (!shuttingDown) { ... redis.brpop("job_queue", 0) is issued
LoopTop(w) ==
    /\ pc[w] = "top"
    /\ ~shuttingDown[w]
    /\ pc' = [pc EXCEPT ![w] = "brpop"]
    /\ UNCHANGED <<store, lists, inserted, shuttingDown, jobId, job, redelivered, rejected, faults, runs, claimer>>

\* the loop condition is false: worker_shutdown_complete, process.exit(0)
Exit(w) ==
    /\ pc[w] = "top"
    /\ shuttingDown[w]
    /\ pc' = [pc EXCEPT ![w] = "exited"]
    /\ UNCHANGED <<store, lists, inserted, shuttingDown, jobId, job, redelivered, rejected, faults, runs, claimer>>

\* process.on("SIGTERM" / "SIGINT"): shuttingDown = true
Signal(w) ==
    /\ pc[w] # "exited"
    /\ ~shuttingDown[w]
    /\ shuttingDown' = [shuttingDown EXCEPT ![w] = TRUE]
    /\ UNCHANGED <<store, lists, inserted, locals, redelivered, rejected, faults, runs, claimer>>

\* redis.brpop("job_queue", 0) returns: timeout 0 waits until an entry exists
Brpop(w) ==
    /\ pc[w] = "brpop"
    /\ Len(job_queue) > 0
    /\ jobId' = [jobId EXCEPT ![w] = brpopValue(job_queue)]
    /\ job_queue' = brpopRest(job_queue)
    /\ pc' = [pc EXCEPT ![w] = "select"]
    /\ UNCHANGED <<store, job_dlq, inserted, shuttingDown, job, redelivered, rejected, faults, runs, claimer>>

\* what the code does with the row it read: the idempotency check
AfterSelect(row) ==
    IF row.status = "none" THEN "top"
    ELSE IF row.status = "completed" THEN "top"
    ELSE "claim"

\* the end of an iteration (continue, or the end of the loop body): back to
\* the loop condition, the block-scoped jobId and job are gone
EndIteration(w) ==
    /\ pc' = [pc EXCEPT ![w] = "top"]
    /\ jobId' = [jobId EXCEPT ![w] = 0]
    /\ job' = [job EXCEPT ![w] = NoJob]

\* SELECT * FROM jobs WHERE id = $1, the not-found and the completed check
Select(w) ==
    /\ pc[w] = "select"
    /\ LET row == IF jobId[w] \in DOMAIN jobs THEN jobs[jobId[w]] ELSE NoJob IN
       IF AfterSelect(row) = "top"
       THEN EndIteration(w)
       ELSE /\ job' = [job EXCEPT ![w] = row]
            /\ pc' = [pc EXCEPT ![w] = AfterSelect(row)]
            /\ UNCHANGED jobId
    /\ UNCHANGED <<store, lists, inserted, shuttingDown, redelivered, rejected, faults, runs, claimer>>

\* UPDATE jobs SET status = 'processing' WHERE id = $2 (no condition on status)
Claim(w) ==
    /\ pc[w] = "claim"
    /\ SetStatus(jobId[w], "processing")
    /\ claimer' = [claimer EXCEPT ![jobId[w]] = w]
    /\ pc' = [pc EXCEPT ![w] = "exec"]
    /\ UNCHANGED <<lists, inserted, shuttingDown, jobId, job, redelivered, rejected, faults, runs>>

IsCsv(type) == type = "CSV_EXPORT" \/ type = "csv-generation"

\* the outcomes of the try block for a row: "throw" (an Error reaches the
\* catch), "csv" / "mail" (the handler reaches its UPDATE), "none" (no branch
\* matches the type and the block ends without any statement)
Outcomes(row) ==
    IF row.payload = "fail" THEN {"throw"}
    ELSE IF IsCsv(row.type)
         THEN (IF row.payload = "good" THEN {"csv"} ELSE {"throw"})
    ELSE IF row.type = "EMAIL_SEND"
         THEN (IF row.payload = "good" THEN {"mail", "throw"} ELSE {"throw"})
    ELSE {"none"}

\* the catch block with <= in place of <
AfterThrowOffByOne(row) ==
    IF row.attempts + 1 <= MAX_RETRIES THEN "update_retry" ELSE "update_failed"

\* the branch of the catch block: attempts = job.attempts + 1
AfterThrow(row) ==
    IF row.attempts + 1 < MAX_RETRIES THEN "update_retry" ELSE "update_failed"

\* where the try block leaves the worker for an outcome
AfterExec(row, o) ==
    CASE o = "throw" -> AfterThrow(row)
      [] o = "csv" -> "update_csv"
      [] o = "mail" -> "update_mail"
      [] OTHER -> "top"

\* JOB EXECUTION: the try block up to its UPDATE, or the throw into the catch
Exec(w) ==
    /\ pc[w] = "exec"
    /\ \E o \in Outcomes(job[w]) :
         IF AfterExec(job[w], o) = "top"
         THEN EndIteration(w)
         ELSE /\ pc' = [pc EXCEPT ![w] = AfterExec(job[w], o)]
              /\ UNCHANGED <<jobId, job>>
    /\ runs' = [runs EXCEPT ![jobId[w]] = @ + 1]
    /\ UNCHANGED <<store, lists, inserted, shuttingDown, redelivered, rejected, faults, claimer>>

\* the result column written by the handler that reached its UPDATE
ResultOf(at) == IF at = "update_csv" THEN "filePath" ELSE "messageId"

\* a success UPDATE that sets the status and leaves the result column alone
CompletedRowNoResult(row, at) == [row EXCEPT !.status = "completed"]

\* the row after the success UPDATE
CompletedRow(row, at) == [row EXCEPT !.status = "completed", !.result = ResultOf(at)]

\* UPDATE jobs SET status = 'completed', result = $2 WHERE id = $3
Complete(w) ==
    /\ pc[w] \in {"update_csv", "update_mail"}
    /\ jobs' = [jobs EXCEPT ![jobId[w]] = CompletedRow(@, pc[w])]
    /\ hist' = [hist EXCEPT ![jobId[w]] = Append(@, "completed")]
    /\ claimer' = [claimer EXCEPT ![jobId[w]] = 0]
    /\ EndIteration(w)
    /\ UNCHANGED <<lists, inserted, shuttingDown, redelivered, rejected, faults, runs>>

\* a failure UPDATE that leaves the attempts column alone
FailedRowKeepAttempts(row, attempts, status) == [row EXCEPT !.status = status]

\* a failure UPDATE that writes pending in both branches
FailedRowPending(row, attempts, status) == [row EXCEPT !.status = "pending", !.attempts = attempts]

\* the row after a failure UPDATE: attempts = $1, status = $2
FailedRow(row, attempts, status) == [row EXCEPT !.status = status, !.attempts = attempts]

\* UPDATE jobs SET attempts = $1, status = 'pending' WHERE id = $3
Retry(w) ==
    /\ pc[w] = "update_retry"
    /\ jobs' = [jobs EXCEPT ![jobId[w]] = FailedRow(@, job[w].attempts + 1, "pending")]
    /\ hist' = [hist EXCEPT ![jobId[w]] = Append(@, "pending")]
    /\ claimer' = [claimer EXCEPT ![jobId[w]] = 0]
    /\ pc' = [pc EXCEPT ![w] = "lpush_queue"]
    /\ UNCHANGED <<lists, inserted, shuttingDown, jobId, job, redelivered, rejected, faults, runs>>

\* redis.lpush("job_queue", jobId) of the retry branch
Requeue(w) ==
    /\ pc[w] = "lpush_queue"
    /\ job_queue' = lpush(job_queue, jobId[w])
    /\ EndIteration(w)
    /\ UNCHANGED <<store, job_dlq, inserted, shuttingDown, redelivered, rejected, faults, runs, claimer>>

\* UPDATE jobs SET attempts = $1, status = 'failed' WHERE id = $3
Fail(w) ==
    /\ pc[w] = "update_failed"
    /\ jobs' = [jobs EXCEPT ![jobId[w]] = FailedRow(@, job[w].attempts + 1, "failed")]
    /\ hist' = [hist EXCEPT ![jobId[w]] = Append(@, "failed")]
    /\ claimer' = [claimer EXCEPT ![jobId[w]] = 0]
    /\ pc' = [pc EXCEPT ![w] = "lpush_dlq"]
    /\ UNCHANGED <<lists, inserted, shuttingDown, jobId, job, redelivered, rejected, faults, runs>>

\* redis.lpush("job_dlq", jobId)
DeadLetter(w) ==
    /\ pc[w] = "lpush_dlq"
    /\ job_dlq' = lpush(job_dlq, jobId[w])
    /\ EndIteration(w)
    /\ UNCHANGED <<store, job_queue, inserted, shuttingDown, redelivered, rejected, faults, runs, claimer>>

\* at-least-once delivery: the broker hands out the id of an existing job
\* once more (a duplicate entry at the head of job_queue)
Redeliver(id) ==
    /\ redelivered < MaxRedeliver
    /\ id \in DOMAIN jobs
    /\ id \notin inserted
    /\ job_queue' = lpush(job_queue, id)
    /\ redelivered' = redelivered + 1
    /\ UNCHANGED <<store, job_dlq, inserted, shuttingDown, locals, rejected, faults, runs, claimer>>

\* ---------------------------------------------------- infrastructure errors

\* the places where the worker awaits the store or the broker
AwaitsInfra == {"brpop", "select", "claim", "update_csv", "update_mail",
                "update_retry", "lpush_queue", "update_failed", "lpush_dlq"}

\* an error handler that ends the process
OnInfraErrorCrash(at, row) == "exited"

\* where a rejected pool.query / redis call leaves the worker: the success
\* UPDATE is inside the try block, so its error reaches the RETRY + DLQ catch;
\* every other one reaches the outer catch (log, 1 s pause, next iteration)
OnInfraError(at, row) ==
    IF at \in {"update_csv", "update_mail"} THEN AfterThrow(row) ELSE "top"

\* a store or broker operation of worker w throws instead of taking effect
InfraError(w) ==
    /\ faults < MaxFaults
    /\ pc[w] \in AwaitsInfra
    /\ faults' = faults + 1
    /\ IF OnInfraError(pc[w], job[w]) = "top"
       THEN EndIteration(w)
       ELSE /\ pc' = [pc EXCEPT ![w] = OnInfraError(pc[w], job[w])]
            /\ UNCHANGED <<jobId, job>>
    /\ UNCHANGED <<store, lists, inserted, shuttingDown, redelivered, rejected, runs, claimer>>

\* router.post("/"): the INSERT throws, catch: 500, nothing was written
PostInsertFails ==
    /\ faults < MaxFaults
    /\ Len(jobs) < MaxJobs
    /\ faults' = faults + 1
    /\ UNCHANGED <<store, lists, inserted, shuttingDown, locals, redelivered, rejected,
                   runs, claimer>>

\* router.post("/"): redis.lpush throws after the INSERT, catch: 500
PostPushFails(id) ==
    /\ faults < MaxFaults
    /\ id \in inserted
    /\ faults' = faults + 1
    /\ inserted' = inserted \ {id}
    /\ UNCHANGED <<store, lists, shuttingDown, locals, redelivered, rejected, runs, claimer>>

\* ------------------------------------------------------- specifications

Producer ==
    \/ \E body \in BodyInputs : PostInsert(body[1], body[2])
    \/ \E id \in JobIds : PostPush(id)

WorkerStep(w) ==
    \/ LoopTop(w)
    \/ Brpop(w)
    \/ Select(w)
    \/ Claim(w)
    \/ Exec(w)
    \/ Complete(w)
    \/ Retry(w)
    \/ Requeue(w)
    \/ Fail(w)
    \/ DeadLetter(w)

Shutdown == \E w \in Workers : Signal(w) \/ Exit(w)

\* the system with a broker that hands each entry to exactly one brpop
Next ==
    \/ Producer
    \/ \E w \in Workers : WorkerStep(w)
    \/ Shutdown

Spec == Init /\ [][Next]_vars

\* the same with duplicate deliveries
NextRedeliver ==
    \/ Next
    \/ \E id \in JobIds : Redeliver(id)

SpecRedeliver == Init /\ [][NextRedeliver]_vars

\* no shutdown signal, and every worker and every request keeps taking steps
NextLive ==
    \/ Producer
    \/ \E w \in Workers : WorkerStep(w)

Fairness ==
    /\ \A w \in Workers : WF_vars(WorkerStep(w))
    /\ \A id \in JobIds : WF_vars(PostPush(id))

SpecLive == Init /\ [][NextLive]_vars /\ Fairness

\* shutdown signals, and every worker keeps taking the steps it can take
SpecShutdownFair ==
    /\ Init /\ [][Next]_vars
    /\ \A w \in Workers : WF_vars(WorkerStep(w) \/ Exit(w))
    /\ \A id \in JobIds : WF_vars(PostPush(id))

\* workers and requests with store and broker operations that may throw
\* (no shutdown signal)
NextInfra ==
    \/ NextLive
    \/ \E w \in Workers : InfraError(w)
    \/ PostInsertFails
    \/ \E id \in JobIds : PostPushFails(id)

SpecInfra == Init /\ [][NextInfra]_vars

\* ------------------------------------------------------------ properties

Status(j) == jobs[j].status

\* worker w is between its claim (UPDATE to processing) and its finalize
\* (the UPDATE to completed, pending or failed)
InAttempt(w) == pc[w] \in {"exec", "update_csv", "update_mail", "update_retry", "update_failed"}

\* worker w is inside the iteration that popped id j
Holds(w, j) == jobId[w] = j /\ pc[w] \notin {"top", "brpop", "exited"}

\* C1: no two consumers are at the same time between their claim and their
\* finalize for the same job id (of two consumers holding a pending job only
\* one moves it to processing and runs the handler).
C1_ExclusiveClaim ==
    \A w1, w2 \in Workers :
        (w1 # w2 /\ jobId[w1] # 0 /\ jobId[w1] = jobId[w2])
            => ~(InAttempt(w1) /\ InAttempt(w2))

\* the handler of job j throws on every attempt
AlwaysFails(j) == Outcomes(jobs[j]) = {"throw"}

\* C2: a job whose handler fails on every attempt is failed after exactly
\* MAX_RETRIES finished attempts, with attempts = MAX_RETRIES, and is then in
\* job_dlq exactly once; before it is failed its id is not in job_dlq.
C2_FailsAfterMaxAttempts ==
    \A j \in DOMAIN jobs : AlwaysFails(j) =>
        /\ runs[j] <= MAX_RETRIES
        /\ Status(j) = "failed" =>
              /\ jobs[j].attempts = MAX_RETRIES
              /\ runs[j] = MAX_RETRIES
              /\ Count(job_dlq, j) = IF \E w \in Workers : Holds(w, j) THEN 0 ELSE 1
        /\ Status(j) # "failed" => Count(job_dlq, j) = 0
        /\ (runs[j] = MAX_RETRIES /\ ~\E w \in Workers : Holds(w, j)) => Status(j) = "failed"

C2_Witness ==
    \E j \in DOMAIN jobs :
        /\ AlwaysFails(j)
        /\ Status(j) = "failed"
        /\ Count(job_dlq, j) = 1
        /\ runs[j] = MAX_RETRIES

\* the first attempt of job j succeeded
FirstAttemptSucceeded(j) ==
    /\ Len(hist[j]) >= 3
    /\ SubSeq(hist[j], 1, 3) = <<"pending", "processing", "completed">>

\* C3: a job whose first attempt succeeds has the status history pending,
\* processing, completed and nothing after it, ran its handler once, and its
\* id is never in job_dlq.
C3_SuccessHistory ==
    \A j \in DOMAIN jobs :
        (Status(j) = "completed" /\ jobs[j].attempts = 0) \/ FirstAttemptSucceeded(j) =>
            /\ hist[j] = <<"pending", "processing", "completed">>
            /\ Status(j) = "completed"
            /\ runs[j] = 1
            /\ Count(job_dlq, j) = 0
            /\ Count(job_queue, j) = 0

C3_Witness ==
    \E j \in DOMAIN jobs :
        /\ FirstAttemptSucceeded(j)
        /\ Status(j) = "completed"
        /\ \A w \in Workers : ~Holds(w, j)

\* C4: a consumer that reads a row whose status is completed or failed ends
\* the iteration there: it does not go on to the UPDATE, the handler or a push.
C4_TerminalRedeliveryNoOp ==
    \A w \in Workers :
        pc[w] \in {"claim", "lpush_queue", "lpush_dlq"} \/ InAttempt(w) =>
            job[w].status \notin {"completed", "failed"}

\* a step finishes an attempt of job j: its status leaves processing
FinishesAttempt(j) ==
    /\ Status(j) = "processing"
    /\ jobs'[j].status \in {"completed", "pending", "failed"}

\* C5: attempts never decreases, grows by exactly 1 in a step that finishes
\* an attempt (successful or failed) and is unchanged by every other step,
\* the claim included.
C5_AttemptsPerFinishedAttempt ==
    [][\A j \in DOMAIN jobs :
         /\ jobs'[j].attempts >= jobs[j].attempts
         /\ jobs'[j].attempts = jobs[j].attempts + (IF FinishesAttempt(j) THEN 1 ELSE 0)]_vars

\* C6: the status of a job is completed if and only if its result is not null.
C6_CompletedIffResult ==
    \A j \in DOMAIN jobs : (Status(j) = "completed") <=> (jobs[j].result # NULL)

C6_Witness ==
    \E j, k \in DOMAIN jobs :
        /\ Status(j) = "completed" /\ jobs[j].result # NULL
        /\ Status(k) = "failed" /\ jobs[k].result = NULL

\* the type of job j matches no branch of the worker
UnknownType(j) == ~IsCsv(jobs[j].type) /\ jobs[j].type # "EMAIL_SEND"

\* C7: a job of an unknown type never becomes completed and is in processing
\* only while a consumer is inside the attempt; it ends pending (requeued) or
\* failed.
C7_UnknownTypeFails ==
    \A j \in DOMAIN jobs : UnknownType(j) =>
        /\ Status(j) # "completed"
        /\ Status(j) = "processing" => \E w \in Workers : jobId[w] = j /\ InAttempt(w)

\* job j is in a terminal status
Terminal(j) ==
    \/ Status(j) = "completed"
    \/ Status(j) = "failed" /\ Count(job_dlq, j) >= 1

\* C8: every created job eventually reaches a terminal status (completed, or
\* failed and in job_dlq), and is written completed at most once.
C8_EventuallyTerminal ==
    /\ \A j \in JobIds : [](j \in DOMAIN jobs => <>(j \in DOMAIN jobs /\ Terminal(j)))
    /\ [](\A j \in DOMAIN jobs : Count(hist[j], "completed") <= 1)

\* C9: once the shutdown signal is raised in a worker, its loop eventually exits.
C9_ShutdownExits ==
    \A w \in Workers : shuttingDown[w] ~> (pc[w] = "exited")

\* C10: when a worker has exited, no job is in processing by this worker's
\* claim; and a worker that is at the loop condition with the signal raised
\* issues no further brpop.
C10_ShutdownLeavesNoClaim ==
    /\ [](\A w \in Workers : pc[w] = "exited" =>
            ~\E j \in DOMAIN jobs : Status(j) = "processing" /\ claimer[j] = w)
    /\ [][\A w \in Workers : (pc[w] = "top" /\ shuttingDown[w]) => pc'[w] \in {"top", "exited"}]_vars

\* C11: a create request without type changes no record and no list; a create
\* request with a type appends exactly one record under a fresh id, pending,
\* attempts 0, and that id is pushed to job_queue by exactly one lpush.
C11_Create ==
    [][/\ rejected' # rejected => UNCHANGED <<jobs, job_queue, job_dlq, inserted>>
       /\ Len(jobs') # Len(jobs) =>
            /\ Len(jobs') = Len(jobs) + 1
            /\ SubSeq(jobs', 1, Len(jobs)) = jobs
            /\ jobs'[Len(jobs')].type # ""
            /\ jobs'[Len(jobs')].status = "pending"
            /\ jobs'[Len(jobs')].attempts = 0
            /\ jobs'[Len(jobs')].result = NULL
            /\ inserted' = inserted \cup {Len(jobs')}
            /\ UNCHANGED <<job_queue, job_dlq, rejected>>
       /\ (inserted' # inserted /\ Len(jobs') = Len(jobs)) =>
            \E id \in inserted :
                /\ inserted' = inserted \ {id}
                /\ job_queue' = <<id>> \o job_queue
                /\ Count(job_queue, id) = 0
                /\ hist[id] = <<"pending">>
                /\ UNCHANGED <<jobs, job_dlq>>]_vars

C11_Witness ==
    /\ rejected = 1
    /\ \E j \in DOMAIN jobs :
        /\ j \notin inserted
        /\ Count(job_queue, j) = 1
        /\ hist[j] = <<"pending">>
        /\ jobs[j].attempts = 0

\* C12: a step in which a store or broker operation throws leaves every
\* worker that has popped a job at the step it was at, with that job (the
\* step is retried for the same job); a worker whose brpop threw holds no job
\* and pops again.
C12_RetrySameStep ==
    [][faults' # faults =>
         \A w \in Workers :
             \/ pc'[w] = pc[w] /\ jobId'[w] = jobId[w]
             \/ pc[w] = "brpop" /\ pc'[w] = "top"]_vars

\* C13: a store or broker error never ends the loop: the worker exits only
\* from the loop condition with the shutdown flag set; after an error it is
\* at the loop condition or in the retry branch of the job, and from the loop
\* condition without the flag its next step issues the brpop.
C13_LoopSurvivesError ==
    [][\A w \in Workers :
         /\ (pc'[w] = "exited" /\ pc[w] # "exited") => (pc[w] = "top" /\ shuttingDown[w])
         /\ (faults' # faults /\ pc'[w] # pc[w]) =>
                pc'[w] \in {"top", "update_retry", "update_failed"}
         /\ (pc[w] = "top" /\ ~shuttingDown[w] /\ pc'[w] # "top") => pc'[w] = "brpop"]_vars

C13_Witness ==
    /\ faults >= 1
    /\ \E j \in DOMAIN jobs :
        /\ IsCsv(jobs[j].type)
        /\ Status(j) = "processing"
        /\ ~\E w \in Workers : Holds(w, j)
        /\ \E w \in Workers : pc[w] = "brpop" /\ ~shuttingDown[w]

\* C14: a failed attempt ends in exactly one of two UPDATEs, chosen by
\* attempts + 1 < MAX_RETRIES: pending with attempts + 1, followed by the
\* push to job_queue only, or failed with attempts + 1, followed by the push
\* to job_dlq only; the UPDATE comes before the push.
C14_RetryOrDeadLetter ==
    [][\A j \in DOMAIN jobs :
         /\ (Status(j) = "processing" /\ jobs'[j].status = "pending") =>
                /\ jobs'[j].attempts = jobs[j].attempts + 1
                /\ jobs[j].attempts + 1 < MAX_RETRIES
                /\ UNCHANGED <<job_queue, job_dlq>>
                /\ \E w \in Workers : jobId[w] = j /\ pc'[w] = "lpush_queue"
         /\ (Status(j) = "processing" /\ jobs'[j].status = "failed") =>
                /\ jobs'[j].attempts = jobs[j].attempts + 1
                /\ ~(jobs[j].attempts + 1 < MAX_RETRIES)
                /\ UNCHANGED <<job_queue, job_dlq>>
                /\ \E w \in Workers : jobId[w] = j /\ pc'[w] = "lpush_dlq"
         /\ (Count(job_queue', j) > Count(job_queue, j) /\ j \notin inserted) =>
                /\ Status(j) = "pending"
                /\ jobs[j].attempts >= 1
                /\ UNCHANGED <<jobs, job_dlq>>
         /\ Count(job_dlq', j) > Count(job_dlq, j) =>
                /\ Status(j) = "failed"
                /\ UNCHANGED <<jobs, job_queue>>]_vars

C14_Witness ==
    \E j \in DOMAIN jobs :
        /\ hist[j] = <<"pending", "processing", "pending", "processing", "failed">>
        /\ Count(job_dlq, j) = 1
        /\ Count(job_queue, j) = 0

\* C15: a finalize UPDATE issued while the row is not processing leaves the
\* row unchanged, and a row that is completed or failed keeps its status.
C15_FinalizeOnlyProcessing ==
    [][\A j \in DOMAIN jobs :
         /\ (/\ Len(hist'[j]) > Len(hist[j])
             /\ hist'[j][Len(hist'[j])] # "processing"
             /\ Status(j) # "processing") => jobs'[j] = jobs[j]
         /\ Status(j) \in {"completed", "failed"} => jobs'[j].status = Status(j)]_vars

\* C16: job_queue is first in, first out: every push puts the id behind all
\* ids that are waiting (also the push of a retry), and every pop hands the
\* id that has waited longest to the popping worker.
C16_Fifo ==
    [][job_queue' # job_queue =>
         \/ \E id \in JobIds : job_queue' = <<id>> \o job_queue
         \/ \E w \in Workers :
              /\ pc[w] = "brpop"
              /\ job_queue = job_queue' \o <<jobId'[w]>>]_vars

C16_Witness ==
    /\ Len(job_queue) = 2
    /\ jobs[job_queue[1]].attempts = 1
    /\ hist[job_queue[2]] = <<"pending">>

\* C17: for every job, the entries of its id in job_queue plus the workers
\* inside an iteration for it are at most 1, and at most one worker is inside
\* an attempt for it.
C17_OneEntryOrHolder ==
    \A j \in DOMAIN jobs :
        /\ Count(job_queue, j) + Cardinality({w \in Workers : Holds(w, j)}) <= 1
        /\ Cardinality({w \in Workers : jobId[w] = j /\ InAttempt(w)}) <= 1

C17_Witness ==
    \E w1, w2 \in Workers :
        /\ w1 # w2
        /\ InAttempt(w1) /\ InAttempt(w2)
        /\ jobId[w1] # jobId[w2]

\* C18: every job that is not completed or failed has an entry in job_queue,
\* is held by a worker inside the iteration that popped it, or is in a create
\* request that has not reached its lpush yet.
C18_NoJobLost ==
    \A j \in DOMAIN jobs :
        Status(j) \notin {"completed", "failed"} =>
            \/ j \in inserted
            \/ Count(job_queue, j) >= 1
            \/ \E w \in Workers : Holds(w, j)

\* C19: every id in job_dlq is the id of a failed job, occurs there once, and
\* is not in job_queue.
C19_DlqConsistent ==
    /\ \A i \in 1..Len(job_dlq) : job_dlq[i] \in DOMAIN jobs
    /\ \A j \in DOMAIN jobs :
        /\ Count(job_dlq, j) <= 1
        /\ Count(job_dlq, j) >= 1 => (Status(j) = "failed" /\ Count(job_queue, j) = 0)

C19_Witness ==
    \E j, k \in DOMAIN jobs :
        /\ Count(job_dlq, j) = 1
        /\ Status(j) = "failed"
        /\ Count(job_queue, k) = 1

\* C20: every job has 0 <= attempts <= MAX_RETRIES and its handler is
\* executed at most MAX_RETRIES times.
C20_AttemptsBounded ==
    \A j \in DOMAIN jobs :
        /\ jobs[j].attempts \in 0..MAX_RETRIES
        /\ runs[j] <= MAX_RETRIES

TypeOK ==
    /\ Len(jobs) <= MaxJobs
    /\ \A w \in Workers : jobId[w] \in 0..MaxJobs

====
